---- MODULE Spec2Model ----
(***************************************************************************)
(* Ghost Budget API (src/main.py): the users and transactions tables and   *)
(* the eight request handlers of the FastAPI application.                  *)
(*                                                                         *)
(* Money is counted in cents (80.0 dollars is 8000).  The payloads are     *)
(* multiples of 10 cents, for which the handlers' arithmetic (x * 1.6,     *)
(* x / 2) has a whole number of cents as its result, so Int arithmetic     *)
(* gives the value the code computes.  unnecessary_spending and the        *)
(* threshold it is compared with only set the multiplier and keep the      *)
(* code's own numbers.  The pickled classifier is opaque: its verdict on   *)
(* a request is a nondeterministic choice among 0, 1 and an exception.     *)
(* The request date only feeds the classifier and is left out.             *)
(*                                                                         *)
(* Spec     : requests are served one at a time, one action per handler.   *)
(* ConcSpec : process_expense requests of several threadpool workers       *)
(*            interleave at their database statements.                     *)
(***************************************************************************)
EXTENDS Integers, Sequences, FiniteSets, TLC

VARIABLES
    users,          \* table users: id -> row
    transactions,   \* table transactions: sequence of rows, in id order
    nreq,           \* number of requests served so far
    last,           \* the latest request: handler, payload, response
    prev,           \* the request before it
    pre,            \* table users as it was before the latest request
    preTx,          \* table transactions as it was before the latest request
    surcharges,     \* per user: differences added by process_expense since
                    \* the user's last claim / continue_saving
    overwritten,    \* per user: update-financials wrote the row since the
                    \* user's last claim / continue_saving
    req             \* ConcSpec: the process_expense request of each worker

vars == <<users, transactions, nreq, last, prev, pre, preTx, surcharges,
          overwritten, req>>

----------------------------------------------------------------------------
(* Bounds *)

MaxRequests == 3
MaxUsers == 2
NumWorkers == 2

(* Request payloads *)

UserIds == 1 .. (MaxUsers + 1)
Usernames == {"demo", "alice", "bob"}
ExpenseTypes == {"Food", "Transport", "Crypto"}
Amounts == {8000, 1000, -50}
UpdatePayloads ==
    { [current_balance |-> 50000, roth_ira_contribution |-> 0,
       high_yield_savings |-> 2000, ghost_budget |-> 5000],
      [current_balance |-> -10000, roth_ira_contribution |-> -2000,
       high_yield_savings |-> 0, ghost_budget |-> -1000] }
ChargePayloads ==
    { [actual_charge |-> 10000, unnecessary_spending |-> 100],
      [actual_charge |-> 10000, unnecessary_spending |-> 250] }
ClassifierOutcomes ==
    { [raises |-> FALSE, prediction |-> 0],
      [raises |-> FALSE, prediction |-> 1],
      [raises |-> TRUE,  prediction |-> 0] }

----------------------------------------------------------------------------
(* Schema and helpers *)

expense_type_mapping ==
    [t \in {"Food", "Entertainment", "Shopping", "Bills", "Transport"} |->
        CASE t = "Food" -> 0
          [] t = "Entertainment" -> 1
          [] t = "Shopping" -> 2
          [] t = "Bills" -> 3
          [] t = "Transport" -> 4]

default_user_id == 1

\* User(username=..., current_balance=10000.0, ...)
User(username) ==
    [username |-> username, current_balance |-> 1000000,
     roth_ira_contribution |-> 0, high_yield_savings |-> 0,
     ghost_budget |-> 0]

\* Transaction(user_id=..., expense_type=..., expense_amount=...)
Transaction(user_id, expense_type, expense_amount) ==
    [user_id |-> user_id, expense_type |-> expense_type,
     expense_amount |-> expense_amount]

\* INTEGER PRIMARY KEY of a table without deletes: the next rowid
NextId(tbl) == Cardinality(DOMAIN tbl) + 1

\* db.add(row); db.commit() on table users
Insert(tbl, row) ==
    [i \in DOMAIN tbl \cup {NextId(tbl)} |->
        IF i \in DOMAIN tbl THEN tbl[i] ELSE row]

\* db.query(User).filter(User.username == name).first() is not None;
\* also the UNIQUE index on users.username
UsernameTaken(tbl, name) == \E i \in DOMAIN tbl : tbl[i].username = name

\* db.query(User).filter(User.id == user_id).first() is not None
UserFound(tbl, user_id) == user_id \in DOMAIN tbl

calculate_adjusted_charge_plain(actual_charge, unnecessary_spending) ==
    (actual_charge * (IF unnecessary_spending > 100
                      THEN (unnecessary_spending - 100) * 12
                      ELSE 1000)) \div 1000

\* multiplier = 1 + excess * 0.012, kept as a count of thousandths
calculate_adjusted_charge(actual_charge, unnecessary_spending) ==
    LET threshold == 100
        factor == 12
        multiplier == IF unnecessary_spending > threshold
                      THEN 1000 + (unnecessary_spending - threshold) * factor
                      ELSE 1000
    IN (actual_charge * multiplier) \div 1000

\* process_expense, from the prediction to the difference
ExpenseCharge(amount, prediction) ==
    LET charge_type == IF prediction = 1 THEN "fake" ELSE "real"
        final_charge == IF prediction = 1
                        THEN calculate_adjusted_charge(amount, 150)
                        ELSE amount
    IN [final_charge |-> final_charge,
        charge_type |-> charge_type,
        difference |-> IF charge_type = "fake" THEN final_charge - amount ELSE 0]

FeatureError_unchecked(expense_type, outcome) ==
    IF outcome.raises THEN "ModelError" ELSE "none"

\* The exception raised in the try block before the database is touched:
\* the HTTPException(400) of an unknown type, or whatever model.predict raises
FeatureError(expense_type, outcome) ==
    IF expense_type \notin DOMAIN expense_type_mapping THEN "HTTPException400"
    ELSE IF outcome.raises THEN "ModelError"
    ELSE "none"

\* try: ... except Exception as e: raise HTTPException(status_code=500, ...)
\* HTTPException is an Exception, so every exception of the try block,
\* the HTTPException(400) included, leaves the handler as a 500
TryStatus(exc) == IF exc = "none" THEN 200 ELSE 500

ChargeRow_final(row, final_charge, difference) ==
    [row EXCEPT !.current_balance = @ - final_charge,
                !.ghost_budget = @ + final_charge]

ChargeRow_lost(row, final_charge, difference) ==
    [row EXCEPT !.current_balance = @ - final_charge]

\* user.current_balance -= final_charge; user.ghost_budget += difference
ChargeRow(row, final_charge, difference) ==
    [row EXCEPT !.current_balance = @ - final_charge,
                !.ghost_budget = @ + difference]

ClaimRow_keep(row) ==
    [row EXCEPT !.current_balance = @ + row.ghost_budget]

\* claim_ghost_budget: the two assignments
ClaimRow(row) ==
    [row EXCEPT !.current_balance = @ + row.ghost_budget,
                !.ghost_budget = 0]

ContinueSavingRow_whole(row) ==
    [row EXCEPT !.roth_ira_contribution = @ + row.ghost_budget,
                !.ghost_budget = 0]

\* continue_saving: half and the three assignments (every ghost_budget the
\* payloads produce is an even number of cents, so the half is exact)
ContinueSavingRow(row) ==
    LET half == row.ghost_budget \div 2
    IN [row EXCEPT !.roth_ira_contribution = @ + half,
                   !.high_yield_savings = @ + half,
                   !.ghost_budget = 0]

CreateTransactionRows_unchecked(tbl, rows, user_id, expense_type, expense_amount) ==
    Append(rows, Transaction(user_id, expense_type, expense_amount))

\* create_transaction: the rows of table transactions after the request
CreateTransactionRows(tbl, rows, user_id, expense_type, expense_amount) ==
    IF ~UserFound(tbl, user_id) THEN rows
    ELSE Append(rows, Transaction(user_id, expense_type, expense_amount))

\* update_user_financials: the four assignments
UpdateRow(row, update) ==
    [row EXCEPT !.current_balance = update.current_balance,
                !.roth_ira_contribution = update.roth_ira_contribution,
                !.high_yield_savings = update.high_yield_savings,
                !.ghost_budget = update.ghost_budget]

----------------------------------------------------------------------------
(* The request log *)

NoRequest ==
    [op |-> "none", user_id |-> 0, expense_type |-> "", amount |-> 0,
     label |-> 0, status |-> 0, final_charge |-> 0, difference |-> 0]

Request(op, user_id, status) ==
    [NoRequest EXCEPT !.op = op, !.user_id = user_id, !.status = status]

Idle == [pc |-> "idle", amount |-> 0, final_charge |-> 0, difference |-> 0,
         user_id |-> 0, loaded |-> User(""), user |-> User(""), status |-> 0]

\* bookkeeping shared by the handlers of Spec
Served(r) ==
    /\ nreq < MaxRequests
    /\ nreq' = nreq + 1
    /\ last' = r
    /\ prev' = last
    /\ pre' = users
    /\ preTx' = transactions
    /\ UNCHANGED req

Init ==
    /\ users = << >>
    /\ transactions = << >>
    /\ nreq = 0
    /\ last = NoRequest
    /\ prev = NoRequest
    /\ pre = << >>
    /\ preTx = << >>
    /\ surcharges = [u \in UserIds |-> 0]
    /\ overwritten = [u \in UserIds |-> FALSE]
    /\ req = [w \in 1 .. NumWorkers |-> Idle]

----------------------------------------------------------------------------
(* Handlers, one request at a time *)

\* POST /predict
predict_spending(expense_type, amount, outcome) ==
    LET exc == FeatureError(expense_type, outcome)
        status == TryStatus(exc)
    IN /\ Served([Request("predict_spending", 0, status) EXCEPT
                    !.expense_type = expense_type, !.amount = amount,
                    !.label = IF status = 200 THEN outcome.prediction ELSE 0])
       /\ UNCHANGED <<users, transactions, surcharges, overwritten>>

\* POST /users/
create_user(username) ==
    /\ Cardinality(DOMAIN users) < MaxUsers
    /\ IF UsernameTaken(users, username)
       THEN /\ Served(Request("create_user", 0, 400))
            /\ UNCHANGED users
       ELSE /\ Served(Request("create_user", NextId(users), 200))
            /\ users' = Insert(users, User(username))
    /\ UNCHANGED <<transactions, surcharges, overwritten>>

\* POST /transactions/
create_transaction(user_id, expense_type, expense_amount) ==
    /\ Served([Request("create_transaction", user_id,
                       IF ~UserFound(users, user_id) THEN 404 ELSE 200)
                  EXCEPT !.expense_type = expense_type,
                         !.amount = expense_amount])
    /\ transactions' = CreateTransactionRows(users, transactions, user_id,
                                             expense_type, expense_amount)
    /\ UNCHANGED <<users, surcharges, overwritten>>

\* PUT /users/update-financials/
update_user_financials(user_id, update) ==
    /\ IF ~UserFound(users, user_id)
       THEN /\ Served(Request("update_user_financials", user_id, 404))
            /\ UNCHANGED <<users, overwritten>>
       ELSE /\ Served(Request("update_user_financials", user_id, 200))
            /\ users' = [users EXCEPT ![user_id] = UpdateRow(@, update)]
            /\ overwritten' = [overwritten EXCEPT ![user_id] = TRUE]
    /\ UNCHANGED <<transactions, surcharges>>

\* POST /calculate-charge
calculate_charge(data) ==
    /\ Served([Request("calculate_charge", 0, 200) EXCEPT
                 !.amount = data.actual_charge,
                 !.final_charge = calculate_adjusted_charge(
                     data.actual_charge, data.unnecessary_spending)])
    /\ UNCHANGED <<users, transactions, surcharges, overwritten>>

\* POST /transactions/calc
process_expense(expense_type, amount, outcome) ==
    LET exc == FeatureError(expense_type, outcome)
        charge == ExpenseCharge(amount, outcome.prediction)
        found == UserFound(users, default_user_id)
        user_id == IF found THEN default_user_id ELSE NextId(users)
        created == IF found THEN users ELSE Insert(users, User("demo"))
        r == [Request("process_expense", 0, 200) EXCEPT
                !.expense_type = expense_type, !.amount = amount]
    IN IF exc # "none"
       THEN /\ Served([r EXCEPT !.status = TryStatus(exc)])
            /\ UNCHANGED <<users, transactions, surcharges, overwritten>>
       ELSE IF ~found /\ UsernameTaken(users, "demo")
       THEN \* IntegrityError of the INSERT
            /\ Served([r EXCEPT !.status = TryStatus("IntegrityError")])
            /\ UNCHANGED <<users, transactions, surcharges, overwritten>>
       ELSE /\ Served([r EXCEPT !.user_id = user_id,
                                !.label = outcome.prediction,
                                !.final_charge = charge.final_charge,
                                !.difference = charge.difference])
            /\ users' = [created EXCEPT ![user_id] =
                            ChargeRow(@, charge.final_charge, charge.difference)]
            /\ surcharges' = [surcharges EXCEPT ![user_id] = @ + charge.difference]
            /\ UNCHANGED <<transactions, overwritten>>

\* POST /users/claim
claim_ghost_budget(user_id) ==
    /\ IF ~UserFound(users, user_id)
       THEN /\ Served(Request("claim_ghost_budget", user_id, 404))
            /\ UNCHANGED <<users, surcharges, overwritten>>
       ELSE /\ Served(Request("claim_ghost_budget", user_id, 200))
            /\ users' = [users EXCEPT ![user_id] = ClaimRow(@)]
            /\ surcharges' = [surcharges EXCEPT ![user_id] = 0]
            /\ overwritten' = [overwritten EXCEPT ![user_id] = FALSE]
    /\ UNCHANGED transactions

\* POST /users/continue-saving
continue_saving(user_id) ==
    /\ IF ~UserFound(users, user_id)
       THEN /\ Served(Request("continue_saving", user_id, 404))
            /\ UNCHANGED <<users, surcharges, overwritten>>
       ELSE /\ Served(Request("continue_saving", user_id, 200))
            /\ users' = [users EXCEPT ![user_id] = ContinueSavingRow(@)]
            /\ surcharges' = [surcharges EXCEPT ![user_id] = 0]
            /\ overwritten' = [overwritten EXCEPT ![user_id] = FALSE]
    /\ UNCHANGED transactions

Next ==
    \/ \E t \in ExpenseTypes, a \in Amounts, o \in ClassifierOutcomes :
          predict_spending(t, a, o)
    \/ \E n \in Usernames : create_user(n)
    \/ \E u \in UserIds, t \in ExpenseTypes, a \in Amounts :
          create_transaction(u, t, a)
    \/ \E u \in UserIds, p \in UpdatePayloads : update_user_financials(u, p)
    \/ \E d \in ChargePayloads : calculate_charge(d)
    \/ \E t \in ExpenseTypes, a \in Amounts, o \in ClassifierOutcomes :
          process_expense(t, a, o)
    \/ \E u \in UserIds : claim_ghost_budget(u)
    \/ \E u \in UserIds : continue_saving(u)

Spec == Init /\ [][Next]_vars

----------------------------------------------------------------------------
(* process_expense under concurrency.                                      *)
(* The handler is a plain def, so FastAPI runs each request on a           *)
(* threadpool worker with a Session of its own (get_db).  The Session      *)
(* reads the row, changes its in-memory copy and writes the changed        *)
(* columns back at commit; the sqlite driver opens no transaction for the  *)
(* SELECT, so nothing is held between the read and the write.              *)

Workers == 1 .. NumWorkers

\* tables the server can hold when the requests arrive
StartTables ==
    { << >>,
      <<User("demo")>>,
      <<ChargeRow(User("alice"), 12800, 4800)>> }

\* the UPDATE emitted by the flush: only the attributes whose value differs
\* from the loaded one are written
Flush(row, loaded, user) ==
    [row EXCEPT
        !.current_balance = IF user.current_balance # loaded.current_balance
                            THEN user.current_balance ELSE @,
        !.ghost_budget = IF user.ghost_budget # loaded.ghost_budget
                         THEN user.ghost_budget ELSE @]

ConcInit ==
    /\ users \in StartTables
    /\ pre = users
    /\ transactions = << >>
    /\ nreq = 0
    /\ last = NoRequest
    /\ prev = NoRequest
    /\ preTx = << >>
    /\ surcharges = [u \in UserIds |-> 0]
    /\ overwritten = [u \in UserIds |-> FALSE]
    /\ req = [w \in Workers |-> Idle]

ConcFrame == UNCHANGED <<transactions, nreq, last, prev, pre, preTx,
                         surcharges, overwritten>>

\* the request arrives: features, prediction, final_charge, difference
Begin(w, expense_type, amount, outcome) ==
    LET exc == FeatureError(expense_type, outcome)
        charge == ExpenseCharge(amount, outcome.prediction)
    IN /\ req[w].pc = "idle"
       /\ req' = [req EXCEPT ![w] =
                    IF exc # "none"
                    THEN [@ EXCEPT !.pc = "done", !.amount = amount,
                                   !.status = TryStatus(exc)]
                    ELSE [@ EXCEPT !.pc = "query", !.amount = amount,
                                   !.final_charge = charge.final_charge,
                                   !.difference = charge.difference]]
       /\ UNCHANGED users
       /\ ConcFrame

\* user = db.query(User).filter(User.id == default_user_id).first()
Query(w) ==
    /\ req[w].pc = "query"
    /\ req' = [req EXCEPT ![w] =
                 IF UserFound(users, default_user_id)
                 THEN [@ EXCEPT !.pc = "modify",
                                !.user_id = default_user_id,
                                !.loaded = users[default_user_id],
                                !.user = users[default_user_id]]
                 ELSE [@ EXCEPT !.pc = "insert"]]
    /\ UNCHANGED users
    /\ ConcFrame

\* user = User(username="demo", ...); db.add; db.commit; db.refresh
InsertDemo(w) ==
    /\ req[w].pc = "insert"
    /\ IF UsernameTaken(users, "demo")
       THEN /\ req' = [req EXCEPT ![w] =
                         [@ EXCEPT !.pc = "done",
                                   !.status = TryStatus("IntegrityError")]]
            /\ UNCHANGED users
       ELSE /\ users' = Insert(users, User("demo"))
            /\ req' = [req EXCEPT ![w] =
                         [@ EXCEPT !.pc = "modify",
                                   !.user_id = NextId(users),
                                   !.loaded = User("demo"),
                                   !.user = User("demo")]]
    /\ ConcFrame

\* user.current_balance -= final_charge; user.ghost_budget += difference
Modify(w) ==
    /\ req[w].pc = "modify"
    /\ req' = [req EXCEPT ![w] =
                 [@ EXCEPT !.pc = "commit",
                           !.user = ChargeRow(@, req[w].final_charge,
                                              req[w].difference)]]
    /\ UNCHANGED users
    /\ ConcFrame

\* db.commit()
Commit(w) ==
    /\ req[w].pc = "commit"
    /\ users' = [users EXCEPT ![req[w].user_id] =
                    Flush(@, req[w].loaded, req[w].user)]
    /\ req' = [req EXCEPT ![w] = [@ EXCEPT !.pc = "done", !.status = 200]]
    /\ ConcFrame

ConcNext ==
    \/ \E w \in Workers, t \in ExpenseTypes, a \in Amounts,
          o \in ClassifierOutcomes : Begin(w, t, a, o)
    \/ \E w \in Workers : Query(w)
    \/ \E w \in Workers : InsertDemo(w)
    \/ \E w \in Workers : Modify(w)
    \/ \E w \in Workers : Commit(w)

ConcSpec == ConcInit /\ [][ConcNext]_vars

----------------------------------------------------------------------------
(* Properties of Spec *)

KnownType(t) == t \in DOMAIN expense_type_mapping

\* the demo row a process_expense request starts from: the stored row, or
\* the row the handler creates when there is none
DemoBefore ==
    IF UserFound(pre, default_user_id) THEN pre[default_user_id]
    ELSE User("demo")

Total(row) ==
    row.current_balance + row.ghost_budget + row.roth_ira_contribution
        + row.high_yield_savings

\* C1: a successful process_expense with label 1 and amount a yields
\* final_charge = 1.6 a and difference = 0.6 a, lowers the demo user's
\* current_balance by final_charge and raises ghost_budget by difference;
\* with label 0, final_charge = a, difference = 0 and ghost_budget is kept.
C1_ProcessExpenseCharge ==
    (last.op = "process_expense" /\ last.status = 200) =>
        /\ last.label = 1 =>
              /\ 10 * last.final_charge = 16 * last.amount
              /\ 10 * last.difference = 6 * last.amount
              /\ last.difference = last.final_charge - last.amount
              /\ last.amount = 8000 =>
                    last.final_charge = 12800 /\ last.difference = 4800
        /\ last.label = 0 =>
              /\ last.final_charge = last.amount
              /\ last.difference = 0
              /\ users[default_user_id].ghost_budget = DemoBefore.ghost_budget
        /\ users[default_user_id].current_balance =
              DemoBefore.current_balance - last.final_charge
        /\ users[default_user_id].ghost_budget =
              DemoBefore.ghost_budget + last.difference

C1_Witness ==
    /\ last.op = "process_expense" /\ last.status = 200
    /\ last.label = 1 /\ last.amount = 8000
    /\ UserFound(pre, default_user_id)
    /\ pre[default_user_id].ghost_budget = 5000
    /\ users[default_user_id].ghost_budget = 9800
    /\ users[default_user_id].current_balance = 37200

\* C2: a process_expense request with an expense_type outside the
\* enumeration fails and leaves both tables as they were; no demo user is
\* created.
C2_UnknownTypeNoMutation ==
    (last.op = "process_expense" /\ ~KnownType(last.expense_type)) =>
        /\ last.status # 200
        /\ users = pre
        /\ transactions = preTx

C2_Witness ==
    /\ last.op = "process_expense" /\ last.expense_type = "Crypto"
    /\ last.status = 500
    /\ ~UserFound(users, default_user_id)

\* C3: POST /predict answers 400 to an expense_type outside the
\* enumeration, and 500 only to other failures.
C3_PredictUnknownType400 ==
    last.op = "predict_spending" =>
        /\ ~KnownType(last.expense_type) => last.status = 400
        /\ last.status = 500 => KnownType(last.expense_type)

\* C4: claim moves ghost_budget into current_balance and empties it; a
\* second claim right after the first leaves the user's row as it was.
C4_ClaimThenClaim ==
    (last.op = "claim_ghost_budget" /\ last.status = 200) =>
        LET u == last.user_id
        IN /\ users[u].current_balance =
                 pre[u].current_balance + pre[u].ghost_budget
           /\ users[u].ghost_budget = 0
           /\ (/\ prev.op = "claim_ghost_budget"
               /\ prev.status = 200
               /\ prev.user_id = u) => users[u] = pre[u]

C4_Witness ==
    /\ last.op = "claim_ghost_budget" /\ last.status = 200
    /\ prev.op = "claim_ghost_budget" /\ prev.status = 200
    /\ prev.user_id = last.user_id
    /\ users[last.user_id].current_balance = 992000

\* C5: continue_saving adds half of ghost_budget to roth_ira_contribution
\* and the same half to high_yield_savings, empties ghost_budget and keeps
\* current_balance; a ghost_budget of 50.00 gives 25.00 and 25.00.
C5_ContinueSavingSplit ==
    (last.op = "continue_saving" /\ last.status = 200) =>
        LET u == last.user_id
            g == pre[u].ghost_budget
            roth == users[u].roth_ira_contribution - pre[u].roth_ira_contribution
            hys == users[u].high_yield_savings - pre[u].high_yield_savings
        IN /\ 2 * roth = g
           /\ 2 * hys = g
           /\ roth = hys
           /\ g = 5000 => roth = 2500 /\ hys = 2500
           /\ users[u].ghost_budget = 0
           /\ users[u].current_balance = pre[u].current_balance
           /\ users[u].username = pre[u].username

C5_Witness ==
    /\ last.op = "continue_saving" /\ last.status = 200
    /\ pre[last.user_id].ghost_budget = 5000
    /\ users[last.user_id].roth_ira_contribution = 2500
    /\ users[last.user_id].high_yield_savings = 4500

\* C6: a transaction for a user_id that matches no user is answered 404
\* and adds no row; every stored transaction references an existing user.
C6_TransactionOwnerExists ==
    /\ (last.op = "create_transaction" /\ ~UserFound(pre, last.user_id)) =>
          last.status = 404 /\ transactions = preTx
    /\ \A i \in 1 .. Len(transactions) :
          UserFound(users, transactions[i].user_id)

C6_Witness ==
    /\ last.op = "create_transaction" /\ last.status = 404
    /\ ~UserFound(users, last.user_id)
    /\ Len(transactions) = 1
    /\ Cardinality(DOMAIN users) = 1

\* C7: every user's ghost_budget is the sum of the differences that
\* process_expense added since the user's last claim or continue_saving.
C7_GhostIsSurchargeSum ==
    \A u \in DOMAIN users : users[u].ghost_budget = surcharges[u]

\* C7 as amended: the same, for the users whose row update-financials has
\* not written since their last claim or continue_saving.
C7_GhostIsSurchargeSumUnlessOverwritten ==
    \A u \in DOMAIN users :
        ~overwritten[u] => users[u].ghost_budget = surcharges[u]

C7_Witness ==
    /\ last.op = "process_expense" /\ last.status = 200 /\ last.label = 1
    /\ prev.op \in {"claim_ghost_budget", "continue_saving"}
    /\ prev.status = 200 /\ prev.user_id = default_user_id
    /\ ~overwritten[default_user_id]
    /\ users[default_user_id].ghost_budget = 4800
    /\ users[default_user_id].current_balance = 979200

\* C8: ghost_budget, roth_ira_contribution and high_yield_savings of every
\* user are never negative.
C8_AccountsNonNegative ==
    \A u \in DOMAIN users :
        /\ users[u].ghost_budget >= 0
        /\ users[u].roth_ira_contribution >= 0
        /\ users[u].high_yield_savings >= 0

\* C10: claim and continue_saving keep the total of the user's four
\* accounts; a successful process_expense lowers the demo user's total by
\* the expense amount, whatever the label.
C10_FundsConserved ==
    /\ (last.op \in {"claim_ghost_budget", "continue_saving"}
            /\ last.status = 200) =>
          Total(users[last.user_id]) = Total(pre[last.user_id])
    /\ (last.op = "process_expense" /\ last.status = 200) =>
          Total(users[default_user_id]) = Total(DemoBefore) - last.amount

C10_Witness ==
    /\ last.op = "continue_saving" /\ last.status = 200
    /\ prev.op = "process_expense" /\ prev.status = 200 /\ prev.label = 1
    /\ prev.amount = 8000
    /\ users[default_user_id].roth_ira_contribution = 2400
    /\ Total(users[default_user_id]) = Total(pre[default_user_id])

----------------------------------------------------------------------------
(* Properties of ConcSpec *)

RECURSIVE SumOver(_, _)
SumOver(f, S) ==
    IF S = {} THEN 0
    ELSE LET w == CHOOSE x \in S : TRUE
         IN f[w] + SumOver(f, S \ {w})

\* C9: when the interleaved process_expense requests have all completed
\* successfully, current_balance has dropped by the sum of their final
\* charges and ghost_budget has grown by the sum of their differences.
C9_NoLostUpdate ==
    (\A w \in Workers : req[w].pc = "done" /\ req[w].status = 200) =>
        /\ users[default_user_id].current_balance =
              DemoBefore.current_balance
                 - SumOver([w \in Workers |-> req[w].final_charge], Workers)
        /\ users[default_user_id].ghost_budget =
              DemoBefore.ghost_budget
                 + SumOver([w \in Workers |-> req[w].difference], Workers)

====
